---- MODULE Spec2Model ----
(***************************************************************************)
(* Model of archai/nas/finalizers.py: class Finalizers.                    *)
(*                                                                         *)
(* finalize_model walks model -> cells -> nodes -> edges, asks every op to *)
(* finalize itself, keeps per node the REQUIRED edges (rank None) and the  *)
(* top max_final_edges OPTIONAL edges, and builds the descriptors.         *)
(*                                                                         *)
(* Two specifications share the operators:                                 *)
(*   Spec      one finalize_model pass over a small model, the              *)
(*             non-blocking device move and later mutations of the model;  *)
(*   SpecNode  finalize_node as a pure function over all small nodes.      *)
(***************************************************************************)
EXTENDS Integers, Sequences, FiniteSets

VARIABLES
    cells,           \* model.cells: the live cells (desc, dag, s0/s1/post ops)
    model,           \* the rest of the live model: desc and the four model ops
    device,          \* model.device_type()
    pending,         \* target of a non-blocking model.to() still in flight, or <<>>
    mutated,         \* live objects changed after finalize_model returned
    pc,              \* position inside finalize_model
    to_cpu,          \* argument of finalize_model
    restore_device,  \* argument of finalize_model
    original,        \* local of finalize_model (line 24)
    cell_descs,      \* local of finalize_model (line 31), built cell by cell
    model_desc,      \* the returned ModelDesc, <<>> before the return
    returned_view,   \* what model_desc showed at the moment it was returned
    restore_begun,   \* model.to(original, non_blocking=True) has been called
    log,             \* every op.finalize() call of the pass, in call order
    node,            \* SpecNode: the node handed to finalize_node
    max_final_edges, \* SpecNode: the bound handed to finalize_node
    node_desc,       \* SpecNode: the NodeDesc returned
    npc              \* SpecNode: "call" before, "done" after finalize_node

vars == <<cells, model, device, pending, mutated, pc, to_cpu, restore_device,
          original, cell_descs, model_desc, returned_view, restore_begun, log,
          node, max_final_edges, node_desc, npc>>

modelVars == <<cells, model, device, pending, mutated, pc, to_cpu, restore_device,
               original, cell_descs, model_desc, returned_view, restore_begun, log>>

nodeVars == <<node, max_final_edges, node_desc, npc>>

----------------------------------------------------------------------------
(* Bounds of the checked instances.                                        *)

MaxCells == 2      \* Spec: cells per model
MaxNodes == 2      \* Spec: nodes per cell
ModelEdges == 2    \* Spec: edges per node
ModelBound == 1    \* Spec: max_final_edges ranges over 0..ModelBound
MaxEdges == 5      \* SpecNode: edges per node
MaxBound == 2      \* SpecNode: max_final_edges ranges over -1..MaxBound

Ranks == {1, 2}    \* the numeric ranks an op may return
ModelRanks == {1}  \* the numeric ranks used in Spec
Devices == {"cpu", "cuda"}

----------------------------------------------------------------------------
(* Values.                                                                 *)

\* Optional[float]: None is the empty sequence, a rank r is <<r>>.
None == <<>>

\* The identity of an op object; op.finalize() returns a descriptor of it.
Op(kind, c, n, e) == [kind |-> kind, cell |-> c, node |-> n, edge |-> e]

\* A reference to a mutable object owned by the live model.
Ref(kind, c, n, e) == [ref |-> kind, cell |-> c, node |-> n, edge |-> e]

\* An edge of the live model: its op, the rank the op's finalize returns,
\* and its input_ids list (an object of the live model).
Edge(c, n, e, rank) ==
    [op |-> Op("edge", c, n, e), rank |-> rank, input_ids |-> Ref("input_ids", c, n, e)]

\* All sequences over S of length at most n.
SeqsUpTo(S, n) == UNION {[1..l -> S] : l \in 0..n}

\* What a holder of reference r sees now.
Deref(r) == IF r \in mutated THEN "changed" ELSE "initial"

----------------------------------------------------------------------------
(* Python list primitives used by the code.                                *)

\* s[:m]: the first m elements for m >= 0 (all of s when m > len(s)); for a
\* negative m everything but the last -m elements.
PySlicePrefix(s, m) ==
    LET stop == IF m >= 0
                THEN (IF m < Len(s) THEN m ELSE Len(s))
                ELSE (IF Len(s) + m > 0 THEN Len(s) + m ELSE 0)
    IN  SubSeq(s, 1, stop)

\* One step of list.sort(key=lambda d:d[1], reverse=True): x goes behind every
\* element whose key is >= its own, so equal keys keep their original order.
InsertByRankDesc(sorted, x) ==
    LET p == Cardinality({i \in 1..Len(sorted) : sorted[i][2][1] >= x[2][1]})
    IN  SubSeq(sorted, 1, p) \o <<x>> \o SubSeq(sorted, p + 1, Len(sorted))

RECURSIVE SortFrom(_, _, _)
SortFrom(s, i, acc) ==
    IF i > Len(s) THEN acc ELSE SortFrom(s, i + 1, InsertByRankDesc(acc, s[i]))

\* Variant: x goes in front of the elements with an equal key, as a sort that
\* orders ascending and then reverses does (ties come out reversed).
InsertBeforeEqual(sorted, x) ==
    LET p == Cardinality({i \in 1..Len(sorted) : sorted[i][2][1] > x[2][1]})
    IN  SubSeq(sorted, 1, p) \o <<x>> \o SubSeq(sorted, p + 1, Len(sorted))

RECURSIVE UnstableSortFrom(_, _, _)
UnstableSortFrom(s, i, acc) ==
    IF i > Len(s) THEN acc ELSE UnstableSortFrom(s, i + 1, InsertBeforeEqual(acc, s[i]))

SortByRankDesc_TiesReversed(s) == UnstableSortFrom(s, 1, <<>>)

\* list.sort(key=lambda d:d[1], reverse=True): stable, descending by rank.
SortByRankDesc(s) == SortFrom(s, 1, <<>>)

----------------------------------------------------------------------------
(* Finalizers, edge and node level.  Each operator returns what the method *)
(* returns together with the op.finalize() calls it made, in call order.   *)

\* finalize_edge: (EdgeDesc(op_desc, edge.input_ids), rank).  The EdgeDesc is
\* handed the edge's own input_ids list, not a copy of it.
finalize_edge(edge) ==
    [edge_desc |-> [op_desc |-> edge.op, input_ids |-> edge.input_ids],
     rank |-> edge.rank,
     calls |-> <<edge.op>>]

RECURSIVE EdgeRanksFrom(_, _, _)
EdgeRanksFrom(nd, i, acc) ==
    IF i > Len(nd) THEN acc
    ELSE LET fe == finalize_edge(nd[i])
         IN  EdgeRanksFrom(nd, i + 1,
                 IF fe.rank = None
                 THEN [acc EXCEPT !.selected_edges = Append(@, fe.edge_desc),
                                  !.calls = @ \o fe.calls]
                 ELSE [acc EXCEPT !.edge_desc_ranks = Append(@, <<fe.edge_desc, fe.rank>>),
                                  !.calls = @ \o fe.calls])

\* get_edge_ranks: the REQUIRED edge descs and the (desc, rank) pairs of the
\* OPTIONAL edges, both in the node's edge order.
get_edge_ranks(nd) ==
    EdgeRanksFrom(nd, 1, [selected_edges |-> <<>>, edge_desc_ranks |-> <<>>, calls |-> <<>>])

\* Variant: the cut keeps one pair too many.
select_edges_OffByOne(edge_desc_ranks, bound) ==
    LET kept == IF Len(edge_desc_ranks) > bound
                THEN PySlicePrefix(SortByRankDesc(edge_desc_ranks), bound + 1)
                ELSE edge_desc_ranks
    IN  [i \in 1..Len(kept) |-> kept[i][1]]

\* select_edges: sort and cut only when there are more pairs than the bound.
select_edges(edge_desc_ranks, bound) ==
    LET kept == IF Len(edge_desc_ranks) > bound
                THEN PySlicePrefix(SortByRankDesc(edge_desc_ranks), bound)
                ELSE edge_desc_ranks
    IN  [i \in 1..Len(kept) |-> kept[i][1]]

\* Variant: the ranked edges are put in front of the required ones.
finalize_node_RankedFirst(nd, bound) ==
    LET ger == get_edge_ranks(nd)
        ranked_selected == IF Len(ger.edge_desc_ranks) > bound
                           THEN [i \in 1..Len(PySlicePrefix(SortByRankDesc(ger.edge_desc_ranks), bound)) |->
                                   PySlicePrefix(SortByRankDesc(ger.edge_desc_ranks), bound)[i][1]]
                           ELSE [i \in 1..Len(ger.edge_desc_ranks) |-> ger.edge_desc_ranks[i][1]]
    IN  [desc |-> ranked_selected \o ger.selected_edges, calls |-> ger.calls]

\* Variant: the bound is a ceiling on the whole NodeDesc.
finalize_node_HardCeiling(nd, bound) ==
    LET ger == get_edge_ranks(nd)
        ranked_selected == IF Len(ger.edge_desc_ranks) > bound
                           THEN [i \in 1..Len(PySlicePrefix(SortByRankDesc(ger.edge_desc_ranks), bound)) |->
                                   PySlicePrefix(SortByRankDesc(ger.edge_desc_ranks), bound)[i][1]]
                           ELSE [i \in 1..Len(ger.edge_desc_ranks) |-> ger.edge_desc_ranks[i][1]]
    IN  [desc |-> PySlicePrefix(ger.selected_edges \o ranked_selected, bound),
         calls |-> ger.calls]

\* finalize_node: NodeDesc(pre_selected + ranked_selected).
finalize_node(nd, bound) ==
    LET ger == get_edge_ranks(nd)
        ranked_selected == select_edges(ger.edge_desc_ranks, bound)
    IN  [desc |-> ger.selected_edges \o ranked_selected, calls |-> ger.calls]

----------------------------------------------------------------------------
(* Finalizers, cell level.                                                 *)

RECURSIVE NodeDescsFrom(_, _, _)
NodeDescsFrom(cell, j, acc) ==
    IF j > Len(cell.dag) THEN acc
    ELSE LET fn == finalize_node(cell.dag[j], cell.desc.max_final_edges)
         IN  NodeDescsFrom(cell, j + 1,
                 [node_descs |-> Append(acc.node_descs, fn.desc),
                  calls |-> acc.calls \o fn.calls])

\* Variant: the node descs are collected in reverse order.
finalize_cell_NodesReversed(cell) ==
    LET nds == NodeDescsFrom(cell, 1, [node_descs |-> <<>>, calls |-> <<>>])
        n == Len(nds.node_descs)
    IN  [desc |-> [cell_type |-> cell.desc.cell_type,
                   id |-> cell.desc.id,
                   nodes |-> [j \in 1..n |-> nds.node_descs[n + 1 - j]],
                   s0_op |-> cell.s0_op,
                   s1_op |-> cell.s1_op,
                   template_cell |-> cell.desc.template_cell,
                   max_final_edges |-> cell.desc.max_final_edges,
                   node_ch_out |-> cell.desc.node_ch_out,
                   post_op |-> cell.post_op],
         calls |-> nds.calls \o <<cell.s0_op, cell.s1_op, cell.post_op>>]

\* Variant: s1_op is taken from s0_op.finalize(), so s0_op is finalized twice.
finalize_cell_S0Twice(cell) ==
    LET nds == NodeDescsFrom(cell, 1, [node_descs |-> <<>>, calls |-> <<>>])
    IN  [desc |-> [cell_type |-> cell.desc.cell_type,
                   id |-> cell.desc.id,
                   nodes |-> nds.node_descs,
                   s0_op |-> cell.s0_op,
                   s1_op |-> cell.s0_op,
                   template_cell |-> cell.desc.template_cell,
                   max_final_edges |-> cell.desc.max_final_edges,
                   node_ch_out |-> cell.desc.node_ch_out,
                   post_op |-> cell.post_op],
         calls |-> nds.calls \o <<cell.s0_op, cell.s0_op, cell.post_op>>]

\* finalize_cell: the node loop, then the CellDesc whose keyword arguments are
\* evaluated left to right: s0_op.finalize(), s1_op.finalize(), post_op.finalize().
finalize_cell(cell) ==
    LET nds == NodeDescsFrom(cell, 1, [node_descs |-> <<>>, calls |-> <<>>])
    IN  [desc |-> [cell_type |-> cell.desc.cell_type,
                   id |-> cell.desc.id,
                   nodes |-> nds.node_descs,
                   s0_op |-> cell.s0_op,
                   s1_op |-> cell.s1_op,
                   template_cell |-> cell.desc.template_cell,
                   max_final_edges |-> cell.desc.max_final_edges,
                   node_ch_out |-> cell.desc.node_ch_out,
                   post_op |-> cell.post_op],
         calls |-> nds.calls \o <<cell.s0_op, cell.s1_op, cell.post_op>>]

----------------------------------------------------------------------------
(* The collaborator Model: device placement.                               *)

\* model.cpu(): a blocking move; the model is host-resident when it returns.
ModelCpu(dev) == "cpu"

\* model.to(dev, non_blocking=True): returns at once, the move is in flight.
ModelToNonBlocking(dev) == <<dev>>

\* The in-flight move completes.
CompleteMove ==
    /\ pending # <<>>
    /\ device' = pending[1]
    /\ pending' = <<>>
    /\ UNCHANGED <<cells, model, mutated, pc, to_cpu, restore_device, original,
                   cell_descs, model_desc, returned_view, restore_begun, log>>
    /\ UNCHANGED nodeVars

----------------------------------------------------------------------------
(* Finalizers.finalize_model, one action per stretch of the method.        *)

\* The log entries of a list of op.finalize() calls made now.
Logged(calls) == [i \in 1..Len(calls) |-> [op |-> calls[i], restore_begun |-> restore_begun]]

\* What a holder of the ModelDesc md reads through it now.
View(md) ==
    [params |-> Deref(md.params),
     aux_tower_descs |-> Deref(md.aux_tower_descs),
     ds_ch |-> md.ds_ch,
     n_classes |-> md.n_classes,
     ops |-> <<md.stem0_op, md.stem1_op, md.pool_op, md.logits_op>>,
     cells |-> [i \in 1..Len(md.cell_descs) |->
                  [id |-> md.cell_descs[i].id,
                   template_cell |-> Deref(md.cell_descs[i].template_cell),
                   nodes |-> [j \in 1..Len(md.cell_descs[i].nodes) |->
                                [k \in 1..Len(md.cell_descs[i].nodes[j]) |->
                                   [op_desc |-> md.cell_descs[i].nodes[j][k].op_desc,
                                    input_ids |-> Deref(md.cell_descs[i].nodes[j][k].input_ids)]]]]]]

\* Variant: the host check is made only when the move to host was asked for.
finalize_model_enter_CheckOnlyIfMoved ==
    /\ pc = "call"
    /\ \E tc \in BOOLEAN, rd \in BOOLEAN :
          /\ to_cpu' = tc
          /\ restore_device' = rd
          /\ original' = device
          /\ device' = IF tc THEN ModelCpu(device) ELSE device
          /\ pc' = IF tc /\ device' # "cpu" THEN "aborted" ELSE "cells"
    /\ UNCHANGED <<cells, model, pending, mutated, cell_descs, model_desc,
                   returned_view, restore_begun, log>>
    /\ UNCHANGED nodeVars

\* Lines 24-29: record the device, optionally move to host, assert host.
finalize_model_enter ==
    /\ pc = "call"
    /\ \E tc \in BOOLEAN, rd \in BOOLEAN :
          /\ to_cpu' = tc
          /\ restore_device' = rd
          /\ original' = device
          /\ device' = IF tc THEN ModelCpu(device) ELSE device
          /\ pc' = IF device' = "cpu" THEN "cells" ELSE "aborted"
    /\ UNCHANGED <<cells, model, pending, mutated, cell_descs, model_desc,
                   returned_view, restore_begun, log>>
    /\ UNCHANGED nodeVars

\* Line 31 / finalize_cells: the next cell of the list comprehension.
finalize_cells ==
    /\ pc = "cells"
    /\ Len(cell_descs) < Len(cells)
    /\ LET fc == finalize_cell(cells[Len(cell_descs) + 1])
       IN  /\ cell_descs' = Append(cell_descs, fc.desc)
           /\ log' = log \o Logged(fc.calls)
    /\ UNCHANGED <<cells, model, device, pending, mutated, pc, to_cpu, restore_device,
                   original, model_desc, returned_view, restore_begun>>
    /\ UNCHANGED nodeVars

\* Variant: the move back targets the host instead of the recorded device.
finalize_model_restore_ToHost ==
    /\ pc = "cells"
    /\ Len(cell_descs) = Len(cells)
    /\ IF restore_device
       THEN /\ pending' = ModelToNonBlocking("cpu")
            /\ restore_begun' = TRUE
       ELSE UNCHANGED <<pending, restore_begun>>
    /\ pc' = "stem0_op"
    /\ UNCHANGED <<cells, model, device, mutated, to_cpu, restore_device, original,
                   cell_descs, model_desc, returned_view, log>>
    /\ UNCHANGED nodeVars

\* Lines 33-34: after the cells, start the move back if asked to.
finalize_model_restore ==
    /\ pc = "cells"
    /\ Len(cell_descs) = Len(cells)
    /\ IF restore_device
       THEN /\ pending' = ModelToNonBlocking(original)
            /\ restore_begun' = TRUE
       ELSE UNCHANGED <<pending, restore_begun>>
    /\ pc' = "stem0_op"
    /\ UNCHANGED <<cells, model, device, mutated, to_cpu, restore_device, original,
                   cell_descs, model_desc, returned_view, log>>
    /\ UNCHANGED nodeVars

\* The order in which the ModelDesc arguments call finalize (lines 36-38, 43).
NextOp(p) ==
    CASE p = "stem0_op" -> "stem1_op"
      [] p = "stem1_op" -> "pool_op"
      [] p = "pool_op" -> "logits_op"
      [] p = "logits_op" -> "return"

\* Lines 36-38, 43: model.<op>.finalize()[0] for the next of the four ops.
finalize_model_op ==
    /\ pc \in {"stem0_op", "stem1_op", "pool_op", "logits_op"}
    /\ log' = log \o Logged(<<model[pc]>>)
    /\ pc' = NextOp(pc)
    /\ UNCHANGED <<cells, model, device, pending, mutated, to_cpu, restore_device,
                   original, cell_descs, model_desc, returned_view, restore_begun>>
    /\ UNCHANGED nodeVars

\* Lines 36-44: the ModelDesc is built from the finalized ops, the cell descs
\* and the fields of model.desc as they are, and returned.
finalize_model_return ==
    /\ pc = "return"
    /\ model_desc' = [stem0_op |-> model.stem0_op,
                      stem1_op |-> model.stem1_op,
                      pool_op |-> model.pool_op,
                      ds_ch |-> model.desc.ds_ch,
                      n_classes |-> model.desc.n_classes,
                      cell_descs |-> cell_descs,
                      aux_tower_descs |-> model.desc.aux_tower_descs,
                      logits_op |-> model.logits_op,
                      params |-> model.desc.params]
    /\ returned_view' = View(model_desc')
    /\ pc' = "done"
    /\ UNCHANGED <<cells, model, device, pending, mutated, to_cpu, restore_device,
                   original, cell_descs, restore_begun, log>>
    /\ UNCHANGED nodeVars

----------------------------------------------------------------------------
(* The caller, after finalize_model returned: it changes one mutable object *)
(* of the live model in place.                                             *)

LiveObjects ==
    {model.desc.params, model.desc.aux_tower_descs}
    \cup {cells[i].desc.template_cell : i \in 1..Len(cells)}
    \cup UNION {UNION {{cells[i].dag[j][k].input_ids : k \in 1..Len(cells[i].dag[j])}
                       : j \in 1..Len(cells[i].dag)} : i \in 1..Len(cells)}

MutateLiveModel ==
    /\ pc = "done"
    /\ mutated = {}
    /\ \E r \in LiveObjects : mutated' = {r}
    /\ UNCHANGED <<cells, model, device, pending, pc, to_cpu, restore_device, original,
                   cell_descs, model_desc, returned_view, restore_begun, log>>
    /\ UNCHANGED nodeVars

----------------------------------------------------------------------------
(* Spec: one finalize_model pass.                                          *)

\* A live cell c with nn nodes, every node with one edge per rank of rs.
LiveCell(c, nn, rs, bound) ==
    [desc |-> [cell_type |-> "regular", id |-> c,
               template_cell |-> Ref("template_cell", c, 0, 0),
               max_final_edges |-> bound, node_ch_out |-> "node_ch_out"],
     dag |-> [j \in 1..nn |-> [k \in 1..Len(rs) |-> Edge(c, j, k, rs[k])]],
     s0_op |-> Op("s0_op", c, 0, 0),
     s1_op |-> Op("s1_op", c, 0, 0),
     post_op |-> Op("post_op", c, 0, 0)]

LiveModel ==
    [desc |-> [ds_ch |-> "ds_ch", n_classes |-> "n_classes",
               aux_tower_descs |-> Ref("aux_tower_descs", 0, 0, 0),
               params |-> Ref("params", 0, 0, 0)],
     stem0_op |-> Op("stem0_op", 0, 0, 0),
     stem1_op |-> Op("stem1_op", 0, 0, 0),
     pool_op |-> Op("pool_op", 0, 0, 0),
     logits_op |-> Op("logits_op", 0, 0, 0)]

OptRanks(S) == {None} \cup {<<r>> : r \in S}

IdleNode ==
    /\ node = <<>>
    /\ max_final_edges = 0
    /\ node_desc = <<>>
    /\ npc = "unused"

Init ==
    /\ \E nc \in 1..MaxCells, nn \in 1..MaxNodes, bound \in 0..ModelBound,
          rs \in SeqsUpTo(OptRanks(ModelRanks), ModelEdges) :
          cells = [c \in 1..nc |-> LiveCell(c, nn, rs, bound)]
    /\ model = LiveModel
    /\ device \in Devices
    /\ pending = <<>>
    /\ mutated = {}
    /\ pc = "call"
    /\ to_cpu = FALSE
    /\ restore_device = FALSE
    /\ original = "cpu"
    /\ cell_descs = <<>>
    /\ model_desc = <<>>
    /\ returned_view = <<>>
    /\ restore_begun = FALSE
    /\ log = <<>>
    /\ IdleNode

Next ==
    \/ finalize_model_enter
    \/ finalize_cells
    \/ finalize_model_restore
    \/ finalize_model_op
    \/ finalize_model_return
    \/ CompleteMove
    \/ MutateLiveModel

Spec == Init /\ [][Next]_vars

\* The method runs to completion once entered, and a started move completes.
PassStep ==
    \/ finalize_cells
    \/ finalize_model_restore
    \/ finalize_model_op
    \/ finalize_model_return

\* The pass over the one largest model of the bounds (first edge of every
\* node REQUIRED, the others OPTIONAL), on either device: the device protocol
\* does not depend on the shape of the model.
InitDevice ==
    /\ cells = [c \in 1..MaxCells |->
                  LiveCell(c, MaxNodes,
                           [k \in 1..ModelEdges |-> IF k = 1 THEN None ELSE <<1>>],
                           ModelBound)]
    /\ model = LiveModel
    /\ device \in Devices
    /\ pending = <<>>
    /\ mutated = {}
    /\ pc = "call"
    /\ to_cpu = FALSE
    /\ restore_device = FALSE
    /\ original = "cpu"
    /\ cell_descs = <<>>
    /\ model_desc = <<>>
    /\ returned_view = <<>>
    /\ restore_begun = FALSE
    /\ log = <<>>
    /\ IdleNode

FairSpec == InitDevice /\ [][Next]_vars /\ WF_vars(PassStep) /\ WF_vars(CompleteMove)

----------------------------------------------------------------------------
(* SpecNode: finalize_node applied to every small node and bound.          *)

NodeOf(rs) == [k \in 1..Len(rs) |-> Edge(1, 1, k, rs[k])]

IdleModel ==
    /\ cells = <<>>
    /\ model = LiveModel
    /\ device = "cpu"
    /\ pending = <<>>
    /\ mutated = {}
    /\ pc = "unused"
    /\ to_cpu = FALSE
    /\ restore_device = FALSE
    /\ original = "cpu"
    /\ cell_descs = <<>>
    /\ model_desc = <<>>
    /\ returned_view = <<>>
    /\ restore_begun = FALSE
    /\ log = <<>>

InitNode ==
    /\ \E rs \in SeqsUpTo(OptRanks(Ranks), MaxEdges) : node = NodeOf(rs)
    /\ max_final_edges \in -1..MaxBound
    /\ node_desc = <<>>
    /\ npc = "call"
    /\ IdleModel

\* Lines 69-74: a call of finalize_node(node, max_final_edges).
finalize_node_call ==
    /\ npc = "call"
    /\ node_desc' = finalize_node(node, max_final_edges).desc
    /\ npc' = "done"
    /\ UNCHANGED <<node, max_final_edges>>
    /\ UNCHANGED modelVars

NextNode == finalize_node_call

SpecNode == InitNode /\ [][NextNode]_vars

----------------------------------------------------------------------------
(* Properties of finalize_node (SpecNode).  They are stated on the input   *)
(* node and the returned NodeDesc only, through the index of the edge each *)
(* EdgeDesc was made from.                                                 *)

\* Indexes of the REQUIRED / OPTIONAL edges of the input node.
ReqIdx == {k \in 1..Len(node) : node[k].rank = None}
OptIdx == {k \in 1..Len(node) : node[k].rank # None}

\* The input index of the edge behind each position of the NodeDesc.
OutIdx == [p \in 1..Len(node_desc) |-> node_desc[p].op_desc.edge]

IsOptIdx(k) == k \in OptIdx

\* The OPTIONAL edges of the NodeDesc, in NodeDesc order.
KeptOpt == SelectSeq(OutIdx, IsOptIdx)
KeptSet == {KeptOpt[p] : p \in 1..Len(KeptOpt)}

RankOf(k) == node[k].rank[1]

\* x comes before y in the stable descending order by rank.
Before(x, y) == RankOf(x) > RankOf(y) \/ (RankOf(x) = RankOf(y) /\ x < y)

\* The kept OPTIONAL edges are the first n of the stable descending order.
IsTopOfStableOrder(n) ==
    /\ Len(KeptOpt) = n
    /\ Cardinality(KeptSet) = n
    /\ \A x \in KeptSet : \A y \in OptIdx \ KeptSet : Before(x, y)
    /\ \A p \in 1..Len(KeptOpt) : \A q \in 1..Len(KeptOpt) :
          p < q => Before(KeptOpt[p], KeptOpt[q])

\* C1 as stated: for every bound, when there are more OPTIONAL edges than
\* max_final_edges the kept OPTIONAL edges are exactly the first
\* max_final_edges of the stable descending order by rank (none for a bound
\* below zero).
C1_TopK_EveryBound ==
    (npc = "done" /\ Cardinality(OptIdx) > max_final_edges)
        => IsTopOfStableOrder(IF max_final_edges > 0 THEN max_final_edges ELSE 0)

\* C1 amended: for every bound max_final_edges >= 0, when there are more
\* OPTIONAL edges than max_final_edges the kept OPTIONAL edges are exactly the
\* first max_final_edges of the stable descending order by rank: no dropped
\* edge outranks a kept one, equal ranks are kept and listed in input order.
C1_TopK_NonNegativeBound ==
    (npc = "done" /\ max_final_edges >= 0 /\ Cardinality(OptIdx) > max_final_edges)
        => IsTopOfStableOrder(max_final_edges)

\* The example of the spec: ranks [None, hi, lo, hi, None] with bound 2 give
\* [edge0, edge4, edge1, edge3] (indexes from 1 here).
C1_Witness ==
    /\ npc = "done"
    /\ max_final_edges = 2
    /\ [k \in 1..Len(node) |-> node[k].rank] = <<None, <<2>>, <<1>>, <<2>>, None>>
    /\ OutIdx = <<1, 5, 2, 4>>

\* C2: in the NodeDesc every REQUIRED edge comes before every OPTIONAL edge,
\* and the REQUIRED edges are in input order.
C2_RequiredFirst ==
    npc = "done" =>
        \A p \in 1..Len(OutIdx) : \A q \in 1..Len(OutIdx) :
            p < q =>
                /\ ~(OutIdx[p] \in OptIdx /\ OutIdx[q] \in ReqIdx)
                /\ (OutIdx[p] \in ReqIdx /\ OutIdx[q] \in ReqIdx) => OutIdx[p] < OutIdx[q]

\* A node whose input has a REQUIRED edge behind a higher-ranked OPTIONAL edge
\* that is kept, and two REQUIRED edges.
C2_Witness ==
    /\ npc = "done"
    /\ Cardinality(ReqIdx) >= 2
    /\ \E k \in KeptSet : \E r \in ReqIdx : k < r /\ RankOf(k) = 2

\* C3 as stated: for every integer bound the NodeDesc holds at most
\* max_final_edges OPTIONAL edges, and all of them when the input has at most
\* max_final_edges.
C3_Bounded_EveryInteger ==
    npc = "done" =>
        /\ Len(KeptOpt) <= max_final_edges
        /\ Cardinality(OptIdx) <= max_final_edges => Len(KeptOpt) = Cardinality(OptIdx)

\* C3 amended: for every bound max_final_edges >= 0 the NodeDesc holds at most
\* max_final_edges OPTIONAL edges; and for every integer bound, when the input
\* has at most max_final_edges OPTIONAL edges, all of them are in the NodeDesc.
C3_Bounded_NonNegative ==
    npc = "done" =>
        /\ max_final_edges >= 0 => Len(KeptOpt) <= max_final_edges
        /\ Cardinality(OptIdx) <= max_final_edges =>
              (Len(KeptOpt) = Cardinality(OptIdx) /\ KeptSet = OptIdx)

\* A cut happened: more OPTIONAL edges than a positive bound, bound many kept.
C3_Witness ==
    /\ npc = "done"
    /\ max_final_edges > 0
    /\ Cardinality(OptIdx) > max_final_edges
    /\ Len(KeptOpt) = max_final_edges

\* C4: every REQUIRED edge of the node is in the NodeDesc exactly once, so the
\* NodeDesc has (number of REQUIRED edges) + (number of OPTIONAL edges kept)
\* entries, which is more than max_final_edges when the REQUIRED edges alone
\* outnumber the bound.
C4_RequiredNeverDropped ==
    npc = "done" =>
        /\ \A r \in ReqIdx : Cardinality({p \in 1..Len(OutIdx) : OutIdx[p] = r}) = 1
        /\ Len(node_desc) = Cardinality(ReqIdx) + Len(KeptOpt)
        /\ max_final_edges < Cardinality(ReqIdx) => Len(node_desc) > max_final_edges

\* More REQUIRED edges than the bound, and OPTIONAL edges competing as well.
C4_Witness ==
    /\ npc = "done"
    /\ max_final_edges >= 0
    /\ Cardinality(ReqIdx) > max_final_edges
    /\ OptIdx # {}
    /\ Len(node_desc) > max_final_edges

----------------------------------------------------------------------------
(* Properties of finalize_model (Spec, FairSpec).                          *)

\* C5: no op.finalize() call of the pass is made after the move back to the
\* original device has been started.
C5_NoFinalizeAfterRestore ==
    \A n \in 1..Len(log) : ~log[n].restore_begun

\* C6 as stated: the assertion aborts only when the move to host was asked
\* for; with to_cpu = FALSE there is no device precondition.
C6_AbortOnlyAfterMove ==
    pc = "aborted" => to_cpu

\* C6 amended: once entered, finalize_model has aborted exactly when the model
\* was not host-resident at the check that follows the optional move, which
\* is the case exactly when to_cpu is FALSE and the model was on a non-host
\* device; the check is made whether or not the move was asked for.
C6_AbortIffNotOnHost ==
    pc # "call" => (pc = "aborted" <=> (~to_cpu /\ original # "cpu"))

C6_Witness ==
    /\ pc = "aborted"
    /\ ~to_cpu
    /\ device = "cuda"

\* C7: with restore_device on a model that was not on the host, the model's
\* device eventually equals the device recorded at entry.
C7_EventuallyRestored ==
    (pc # "call" /\ restore_device /\ original # "cpu") ~> (device = original)

\* finalize_model has returned and the model is still on the host.
C7_Witness ==
    /\ pc = "done"
    /\ restore_device
    /\ original = "cuda"
    /\ device = "cpu"
    /\ pending = <<"cuda">>

\* The finalize calls of edge ops in the log, in call order.
IsEdgeCall(e) == e.op.kind = "edge"
EdgeCalls == SelectSeq(log, IsEdgeCall)

\* C8: the i-th CellDesc is made from the i-th cell, its j-th NodeDesc from the
\* cell's j-th node, and the edges of a node are finalized in the node's edge
\* order (cell after cell, node after node).
C8_OrderPreserved ==
    LET ec == EdgeCalls
    IN  /\ Len(cell_descs) <= Len(cells)
        /\ pc \in {"stem0_op", "stem1_op", "pool_op", "logits_op", "return", "done"}
              => Len(cell_descs) = Len(cells)
        /\ \A i \in 1..Len(cell_descs) :
              /\ cell_descs[i].id = cells[i].desc.id
              /\ Len(cell_descs[i].nodes) = Len(cells[i].dag)
              /\ \A j \in 1..Len(cell_descs[i].nodes) :
                    /\ \A p \in 1..Len(cell_descs[i].nodes[j]) :
                          \E k \in 1..Len(cells[i].dag[j]) :
                              cell_descs[i].nodes[j][p].op_desc = cells[i].dag[j][k].op
                    /\ Cardinality({n \in 1..Len(ec) :
                                       ec[n].op.cell = i /\ ec[n].op.node = j})
                          = Len(cells[i].dag[j])
        /\ \A n \in 1..Len(ec) : \A m \in 1..Len(ec) :
              n < m =>
                 LET a == ec[n].op
                     b == ec[m].op
                 IN  \/ a.cell < b.cell
                     \/ a.cell = b.cell /\ a.node < b.node
                     \/ a.cell = b.cell /\ a.node = b.node /\ a.edge < b.edge

\* A finished pass over two cells of two nodes of two edges, an edge kept.
C8_Witness ==
    /\ pc = "done"
    /\ Len(cells) = 2
    /\ Len(cells[2].dag) = 2
    /\ Len(cells[2].dag[2]) = 2
    /\ Len(cell_descs[2].nodes[2]) >= 1

\* C9: whatever is changed in the live model after the return, the returned
\* ModelDesc still reads as it did when it was returned.
C9_Detached ==
    pc = "done" => View(model_desc) = returned_view

\* Every op of the live model.
AllOps ==
    {model.stem0_op, model.stem1_op, model.pool_op, model.logits_op}
    \cup UNION {{cells[i].s0_op, cells[i].s1_op, cells[i].post_op} : i \in 1..Len(cells)}
    \cup UNION {UNION {{cells[i].dag[j][k].op : k \in 1..Len(cells[i].dag[j])}
                       : j \in 1..Len(cells[i].dag)} : i \in 1..Len(cells)}

\* C10: when the pass has returned, every op of the model was finalized
\* exactly once, the edges dropped by the selection included.
C10_EveryOpOnce ==
    pc = "done" =>
        LET ops == AllOps
        IN  /\ \A o \in ops : Cardinality({n \in 1..Len(log) : log[n].op = o}) = 1
            /\ \A n \in 1..Len(log) : log[n].op \in ops

\* A finished pass in which a node lost a finalized edge to the selection.
C10_Witness ==
    /\ pc = "done"
    /\ \E i \in 1..Len(cells) : \E j \in 1..Len(cells[i].dag) :
          Len(cell_descs[i].nodes[j]) < Len(cells[i].dag[j])

====
